---- MODULE Spec2Model ----
(***************************************************************************)
(* Token-bounded chunking (TokenOperator.chunk_data) and the map-reduce    *)
(* summarization built on it (Summarizer.summarize), together with the     *)
(* caller MetadataService._summarize_metadata.                             *)
(*                                                                         *)
(* A sub-item (a dict in the code) is a record                             *)
(*   [role, rec, idx, size]                                                *)
(* role: "metadata" (a record minus its attributes), "attribute" (an       *)
(* element of a record's attributes list), "entry" (a top-level element of *)
(* results that is not a non-empty dict) or "placeholder" (the {} that     *)
(* chunk_data's variable metadata holds before any record was seen);       *)
(* rec/idx: its position in the input; size: what estimate_tokens returns  *)
(* for its JSON text.                                                      *)
(***************************************************************************)
EXTENDS Integers, Sequences, FiniteSets, TLC

\* Longest input traversal (metadata items + attributes + entries).
MaxItems == 4

\* Longest input traversal of the runs checked for termination.
MaxRunItems == 1

\* self.token_limit
token_limit == 120000

\* Token estimates an item can have: two that fit together, one that fits with
\* the smallest only, one that exceeds the limit alone.
Sizes == {50000, 70000, 130000}

Questions == {"q1", "q2"}

VARIABLES
  pc,                 \* position of the run
  entry,              \* which entry point was called
  metadata_response,  \* the fetched response: [has_results, results]
  json_data,          \* summarize's argument metadata_response (a dict)
  user_question,
  chunked_data,       \* summarize: chunked_data
  prepared_data_list, \* summarize: prepared_data_list
  summaries,          \* _send_chunks_summary: summaries
  calls,              \* generation calls issued so far (send_prompt)
  result,             \* value returned to the caller
  error,              \* exception that ended the run
  response            \* _request: its local variable response

vars == <<pc, entry, metadata_response, json_data, user_question, chunked_data,
          prepared_data_list, summaries, calls, result, error, response>>

(***************************************************************************)
(* Inputs                                                                  *)
(***************************************************************************)
RECURSIVE SeqsOf(_, _)
SeqsOf(S, n) ==
  IF n = 0 THEN {<<>>}
  ELSE {Append(s, x) : s \in SeqsOf(S, n - 1), x \in S}

\* Elements of results whose traversal has k sub-items: a record with k-1
\* attributes, or (k = 1) an element that is not a non-empty dict.
EntriesOfLen(k) ==
  {[is_record |-> TRUE, size |-> s, attributes |-> a] :
      s \in Sizes, a \in SeqsOf(Sizes, k - 1)}
  \cup (IF k = 1
        THEN {[is_record |-> FALSE, size |-> s, attributes |-> <<>>] : s \in Sizes}
        ELSE {})

RECURSIVE ResultsOfLen(_)
ResultsOfLen(n) ==
  IF n = 0 THEN {<<>>}
  ELSE UNION {{<<e>> \o r : e \in EntriesOfLen(k), r \in ResultsOfLen(n - k)} :
                k \in 1..n}

ResultSets == UNION {ResultsOfLen(n) : n \in 0..MaxItems}

\* A response with a results list, or one without (a MetadataMessage, or a
\* dict with no "results" key).
Responses ==
  {[has_results |-> TRUE, results |-> r] : r \in ResultSets}
  \cup {[has_results |-> FALSE, results |-> <<>>]}

(***************************************************************************)
(* TokenOperator                                                           *)
(***************************************************************************)
RECURSIVE Flatten(_)
Flatten(ss) == IF ss = <<>> THEN <<>> ELSE Head(ss) \o Flatten(Tail(ss))

RECURSIVE SumSizes(_)
SumSizes(items) ==
  IF items = <<>> THEN 0 ELSE Head(items).size + SumSizes(Tail(items))

\* estimate_tokens(json.dumps(item)): the tokenizer is deterministic, so the
\* estimate is an attribute of the item.
estimate_tokens(item) == item.size

\* metadata = {} / metadata_size = 0 at the start of chunk_data; "{}" itself
\* encodes to one token.
EmptyMetadata == [role |-> "placeholder", rec |-> 0, idx |-> 0, size |-> 1]

MetadataItem(i, e) == [role |-> "metadata", rec |-> i, idx |-> 0, size |-> e.size]
AttributeItem(i, e, j) ==
  [role |-> "attribute", rec |-> i, idx |-> j, size |-> e.attributes[j]]
EntryItem(i, e) == [role |-> "entry", rec |-> i, idx |-> 0, size |-> e.size]

\* json_data.get("results", [])
GetResults(d) == IF d.has_results THEN d.results ELSE <<>>

\* The add_to_chunk calls of the loop over results, in order.
AddCalls(results) ==
  Flatten([i \in 1..Len(results) |->
    LET e == results[i] IN
    IF e.is_record
    THEN <<[item |-> MetadataItem(i, e), type |-> "metadata"]>>
         \o [j \in 1..Len(e.attributes) |->
               [item |-> AttributeItem(i, e, j), type |-> "attribute"]]
    ELSE <<[item |-> EntryItem(i, e), type |-> "attribute"]>>])

\* The input traversal: records outer, attributes inner.
Traversal(results) ==
  LET c == AddCalls(results) IN [n \in 1..Len(c) |-> c[n].item]

ChunkInit ==
  [chunks |-> <<>>, current_chunk |-> <<>>, current_chunk_size |-> 0,
   metadata_size |-> 0, metadata |-> EmptyMetadata]

\* Mutant: an attribute overflow opens an empty chunk.
AddToChunk_NoSeed(st, item, type) ==
  LET item_size == estimate_tokens(item)
      md   == IF type = "metadata" THEN item ELSE st.metadata
      mds  == IF type = "metadata" THEN item_size ELSE st.metadata_size
      over == st.current_chunk_size + item_size > token_limit
  IN [chunks |-> IF over THEN Append(st.chunks, st.current_chunk) ELSE st.chunks,
      current_chunk |-> Append(IF over THEN <<>> ELSE st.current_chunk, item),
      current_chunk_size |-> (IF over THEN 0 ELSE st.current_chunk_size) + item_size,
      metadata_size |-> mds,
      metadata |-> md]

\* Mutant: the item that overflows is not appended to the new chunk.
AddToChunk_DropOnOverflow(st, item, type) ==
  LET item_size == estimate_tokens(item)
      md   == IF type = "metadata" THEN item ELSE st.metadata
      mds  == IF type = "metadata" THEN item_size ELSE st.metadata_size
      over == st.current_chunk_size + item_size > token_limit
      seed == IF type = "attribute" THEN <<md>> ELSE <<>>
  IN [chunks |-> IF over THEN Append(st.chunks, st.current_chunk) ELSE st.chunks,
      current_chunk |-> IF over THEN seed ELSE Append(st.current_chunk, item),
      current_chunk_size |->
        IF over THEN (IF type = "attribute" THEN mds ELSE 0)
        ELSE st.current_chunk_size + item_size,
      metadata_size |-> mds,
      metadata |-> md]

\* Mutant: the item that overflows is appended before the chunk is closed, too.
AddToChunk_DupOnOverflow(st, item, type) ==
  LET item_size == estimate_tokens(item)
      md   == IF type = "metadata" THEN item ELSE st.metadata
      mds  == IF type = "metadata" THEN item_size ELSE st.metadata_size
      over == st.current_chunk_size + item_size > token_limit
      seed == IF type = "attribute" THEN <<md>> ELSE <<>>
  IN [chunks |-> IF over THEN Append(st.chunks, Append(st.current_chunk, item))
                 ELSE st.chunks,
      current_chunk |-> Append(IF over THEN seed ELSE st.current_chunk, item),
      current_chunk_size |->
        (IF over THEN (IF type = "attribute" THEN mds ELSE 0)
         ELSE st.current_chunk_size) + item_size,
      metadata_size |-> mds,
      metadata |-> md]

\* Mutant: the chunk is closed already when the item would fill it exactly.
AddToChunk_CloseAtLimit(st, item, type) ==
  LET item_size == estimate_tokens(item)
      md   == IF type = "metadata" THEN item ELSE st.metadata
      mds  == IF type = "metadata" THEN item_size ELSE st.metadata_size
      over == st.current_chunk_size + item_size >= token_limit
      seed == IF type = "attribute" THEN <<md>> ELSE <<>>
  IN [chunks |-> IF over THEN Append(st.chunks, st.current_chunk) ELSE st.chunks,
      current_chunk |-> Append(IF over THEN seed ELSE st.current_chunk, item),
      current_chunk_size |->
        (IF over THEN (IF type = "attribute" THEN mds ELSE 0)
         ELSE st.current_chunk_size) + item_size,
      metadata_size |-> mds,
      metadata |-> md]

\* add_to_chunk(item, type) on the closure state st.
AddToChunk(st, item, type) ==
  LET item_size == estimate_tokens(item)
      md   == IF type = "metadata" THEN item ELSE st.metadata
      mds  == IF type = "metadata" THEN item_size ELSE st.metadata_size
      over == st.current_chunk_size + item_size > token_limit
      seed == IF type = "attribute" THEN <<md>> ELSE <<>>
  IN [chunks |-> IF over THEN Append(st.chunks, st.current_chunk) ELSE st.chunks,
      current_chunk |-> Append(IF over THEN seed ELSE st.current_chunk, item),
      current_chunk_size |->
        (IF over THEN (IF type = "attribute" THEN mds ELSE 0)
         ELSE st.current_chunk_size) + item_size,
      metadata_size |-> mds,
      metadata |-> md]

RECURSIVE AddAll(_, _)
AddAll(st, cs) ==
  IF cs = <<>> THEN st
  ELSE AddAll(AddToChunk(st, Head(cs).item, Head(cs).type), Tail(cs))

\* chunk_data(json_data)
chunk_data(d) ==
  LET st     == AddAll(ChunkInit, AddCalls(GetResults(d)))
      chunks == IF st.current_chunk # <<>>
                THEN Append(st.chunks, st.current_chunk)
                ELSE st.chunks
  IN [idx \in 1..Len(chunks) |->
        [chunk_id |-> idx - 1, total_chunks |-> Len(chunks), data |-> chunks[idx]]]

(***************************************************************************)
(* Summarizer                                                              *)
(***************************************************************************)
\* A Python value whose type matters: an int or a str.
PyInt(n) == [py |-> "int", v |-> n]
PyStr(s) == [py |-> "str", v |-> s]

RECURSIVE JoinQuoted(_)
JoinQuoted(l) ==
  IF l = <<>> THEN ""
  ELSE "\"" \o Head(l) \o "\"" \o (IF Len(l) > 1 THEN ", " ELSE "") \o JoinQuoted(Tail(l))

\* json.dumps of a list of strings.
json_dumps(l) == PyStr("[" \o JoinQuoted(l) \o "]")

\* _prepare_data(chunks, user_question)
prepare_data(chunks, q) ==
  [n \in 1..Len(chunks) |->
     [user_question |-> q,
      chunk         |-> chunks[n].data,
      chunk_id      |-> json_dumps(<<"chunk_id">>),
      total_chunks  |-> chunks[n].total_chunks]]

\* "for data_id, data in data_list": iterating a dict yields its keys, and the
\* tuple target takes exactly two of them.
UnpackRaises(d) == Cardinality(DOMAIN d) # 2

NoResults(r) == ~r.has_results \/ r.results = <<>>

\* A local variable that no assignment has bound yet.
Unbound == [bound |-> FALSE, status_ok |-> FALSE, json_ok |-> FALSE]

\* MetadataResult(results=[])
EmptyResult == [has_results |-> TRUE, results |-> <<>>]

\* _parse_response(response, pass_empty): the body the service answers with is
\* metadata_response (a body with a "message" key parses to a MetadataMessage,
\* which has no results).
parse_response(r, pass_empty, body) ==
  IF pass_empty THEN EmptyResult
  ELSE IF ~r.json_ok THEN EmptyResult
  ELSE body

Init ==
  /\ pc = "idle"
  /\ entry = "none"
  /\ metadata_response \in Responses
  /\ json_data = [has_results |-> FALSE, results |-> <<>>]
  /\ user_question = ""
  /\ chunked_data = <<>>
  /\ prepared_data_list = <<>>
  /\ summaries = <<>>
  /\ calls = <<>>
  /\ result = [kind |-> "none"]
  /\ error = "none"
  /\ response = Unbound

\* Mutant: _summarize_metadata without its no-results check.
SummarizeMetadata_NoCheck ==
  /\ pc = "idle"
  /\ \E q \in Questions : user_question' = q
  /\ entry' = "service"
  /\ json_data' = [has_results |-> TRUE, results |-> metadata_response.results]
  /\ pc' = "chunk_data"
  /\ UNCHANGED <<response, metadata_response, chunked_data, prepared_data_list, summaries,
                 calls, result, error>>

\* MetadataService._summarize_metadata(metadata_response, user_question), up to
\* its call of summarizer.summarize.
SummarizeMetadata ==
  /\ pc = "idle"
  /\ \E q \in Questions : user_question' = q
  /\ entry' = "service"
  /\ IF NoResults(metadata_response)
     THEN /\ result' = [kind |-> "response", value |-> metadata_response]
          /\ pc' = "returned"
          /\ UNCHANGED json_data
     ELSE /\ json_data' = [has_results |-> TRUE, results |-> metadata_response.results]
          /\ pc' = "chunk_data"
          /\ UNCHANGED result
  /\ UNCHANGED <<response, metadata_response, chunked_data, prepared_data_list, summaries,
                 calls, error>>

\* Summarizer.summarize(user_question, metadata_response) called directly.
Summarize ==
  /\ pc = "idle"
  /\ \E q \in Questions : user_question' = q
  /\ entry' = "direct"
  /\ json_data' = metadata_response
  /\ pc' = "chunk_data"
  /\ UNCHANGED <<response, metadata_response, chunked_data, prepared_data_list, summaries,
                 calls, result, error>>

\* summarize: chunked_data = self.tokenizer.chunk_data(metadata_response)
ChunkData ==
  /\ pc = "chunk_data"
  /\ chunked_data' = chunk_data(json_data)
  /\ pc' = "prepare_data"
  /\ UNCHANGED <<response, entry, metadata_response, json_data, user_question,
                 prepared_data_list, summaries, calls, result, error>>

\* summarize: prepared_data_list = self._prepare_data(chunked_data, user_question)
PrepareData ==
  /\ pc = "prepare_data"
  /\ prepared_data_list' = prepare_data(chunked_data, user_question)
  /\ pc' = "send_chunks"
  /\ UNCHANGED <<response, entry, metadata_response, json_data, user_question, chunked_data,
                 summaries, calls, result, error>>

\* Mutant: the loop's exception is swallowed and the run goes on to the final
\* prompt.
SendChunksSummary_Swallow ==
  /\ pc = "send_chunks"
  /\ pc' = "final_prompt"
  /\ error' = IF prepared_data_list = <<>> THEN error ELSE "ValueError"
  /\ UNCHANGED <<response, entry, metadata_response, json_data, user_question, chunked_data,
                 prepared_data_list, summaries, calls, result>>

\* Mutant: a pass of the loop that raises ends the run with what was collected,
\* without the final prompt.
SendChunksSummary_EarlyReturn ==
  /\ pc = "send_chunks"
  /\ IF Len(summaries) >= Len(prepared_data_list)
     THEN /\ pc' = "final_prompt"
          /\ UNCHANGED result
     ELSE /\ pc' = "done"
          /\ result' = [kind |-> "final_summary", value |-> summaries]
  /\ UNCHANGED <<response, entry, metadata_response, json_data, user_question,
                 chunked_data, prepared_data_list, summaries, calls, error>>

\* _send_chunks_summary(data_list): one pass of its loop, or its return.
SendChunksSummary ==
  /\ pc = "send_chunks"
  /\ IF Len(summaries) >= Len(prepared_data_list)
     THEN /\ pc' = "final_prompt"
          /\ UNCHANGED <<summaries, calls, error>>
     ELSE LET d == prepared_data_list[Len(summaries) + 1] IN
          IF UnpackRaises(d)
          THEN /\ pc' = "failed"
               /\ error' = "ValueError"
               /\ UNCHANGED <<summaries, calls>>
          ELSE \E ok \in BOOLEAN :
                 /\ calls' = Append(calls, [kind |-> "map", payload |-> d])
                 /\ IF ok
                    THEN /\ summaries' = Append(summaries, [of |-> d])
                         /\ UNCHANGED <<pc, error>>
                    ELSE /\ pc' = "failed"
                         /\ error' = "MapCallFailure"
                         /\ UNCHANGED summaries
  /\ UNCHANGED <<response, entry, metadata_response, json_data, user_question, chunked_data,
                 prepared_data_list, result>>

\* summarize: final_summary = self.final_summary_assistant.send_prompt({...});
\* the generation call returns or raises.
FinalSendPrompt ==
  /\ pc = "final_prompt"
  /\ calls' = Append(calls, [kind |-> "reduce",
                             payload |-> [user_question |-> user_question,
                                          summaries |-> summaries]])
  /\ \E ok \in BOOLEAN :
       IF ok
       THEN /\ result' = [kind |-> "final_summary", value |-> summaries]
            /\ pc' = "done"
            /\ UNCHANGED error
       ELSE /\ pc' = "failed"
            /\ error' = "ReduceCallFailure"
            /\ UNCHANGED result
  /\ UNCHANGED <<response, entry, metadata_response, json_data, user_question, chunked_data,
                 prepared_data_list, summaries>>

\* get_metadata(request, user_question, summarize=False): the fetched response
\* is returned as it is.
GetMetadataRaw ==
  /\ pc = "idle"
  /\ \E q \in Questions : user_question' = q
  /\ entry' = "raw"
  /\ result' = [kind |-> "response", value |-> metadata_response]
  /\ pc' = "returned"
  /\ UNCHANGED <<response, metadata_response, json_data, chunked_data,
                 prepared_data_list, summaries, calls, error>>

\* _request(endpoint, query_params) is called: url built, try block entered.
Request ==
  /\ pc = "idle"
  /\ entry' = "request"
  /\ pc' = "request_try"
  /\ UNCHANGED <<response, metadata_response, json_data, user_question, chunked_data,
                 prepared_data_list, summaries, calls, result, error>>

\* _request, the try block: requests.get raises a RequestException before it
\* returns (connection error, timeout), or returns a response that
\* raise_for_status accepts or rejects.
RequestsGet ==
  /\ pc = "request_try"
  /\ \E raised \in BOOLEAN, status_ok \in BOOLEAN, json_ok \in BOOLEAN :
       IF raised
       THEN /\ pc' = "request_except"
            /\ UNCHANGED <<response, result>>
       ELSE /\ response' = [bound |-> TRUE, status_ok |-> status_ok, json_ok |-> json_ok]
            /\ IF status_ok
               THEN /\ result' = [kind |-> "response",
                                  value |-> parse_response(response', FALSE,
                                                           metadata_response)]
                    /\ pc' = "request_returned"
               ELSE /\ pc' = "request_except"
                    /\ UNCHANGED result
  /\ UNCHANGED <<entry, metadata_response, json_data, user_question, chunked_data,
                 prepared_data_list, summaries, calls, error>>

\* _request, the except block: return self._parse_response(response=response,
\* pass_empty=True). Reading response when no assignment bound it raises
\* UnboundLocalError, which nothing catches.
RequestExcept ==
  /\ pc = "request_except"
  /\ IF response.bound
     THEN /\ result' = [kind |-> "response",
                        value |-> parse_response(response, TRUE, metadata_response)]
          /\ pc' = "request_returned"
          /\ UNCHANGED error
     ELSE /\ error' = "UnboundLocalError"
          /\ pc' = "request_raised"
          /\ UNCHANGED result
  /\ UNCHANGED <<response, entry, metadata_response, json_data, user_question,
                 chunked_data, prepared_data_list, summaries, calls>>

Next ==
  \/ GetMetadataRaw
  \/ Request
  \/ RequestsGet
  \/ RequestExcept
  \/ SummarizeMetadata
  \/ Summarize
  \/ ChunkData
  \/ PrepareData
  \/ SendChunksSummary
  \/ FinalSendPrompt

Spec == Init /\ [][Next]_vars

\* The code is sequential and synchronous: a call that was entered runs on to
\* its return or its exception, given that every generation call and every
\* HTTP call returns or fails.
FairInit ==
  /\ Init
  /\ Len(metadata_response.results) <= MaxRunItems
  /\ Len(Traversal(metadata_response.results)) <= MaxRunItems

FairSpec == FairInit /\ [][Next]_vars /\ WF_vars(Next)

(***************************************************************************)
(* Properties                                                              *)
(***************************************************************************)
\* chunk_data has returned in this run.
Chunked == pc \in {"prepare_data", "send_chunks", "final_prompt", "done", "failed"}

DataOf(k) == chunked_data[k].data

MapCalls == Cardinality({i \in DOMAIN calls : calls[i].kind = "map"})
ReduceCalls == Cardinality({i \in DOMAIN calls : calls[i].kind = "reduce"})

\* The first element of chunk k is a metadata item put there by an attribute
\* overflow: it repeats a metadata item of an earlier chunk, or it is the
\* placeholder, which is no item of the input.
IsReinsertedHead(k) ==
  /\ DataOf(k) # <<>>
  /\ LET h == Head(DataOf(k)) IN
       \/ h.role = "placeholder"
       \/ /\ h.role = "metadata"
          /\ \E k2 \in 1..(k - 1) : \E j \in DOMAIN DataOf(k2) : DataOf(k2)[j] = h

Stripped(k) == IF IsReinsertedHead(k) THEN Tail(DataOf(k)) ELSE DataOf(k)

\* Number of places in the chunks where item occurs.
Occurrences(item) ==
  Cardinality({p \in (DOMAIN chunked_data) \X (1..(MaxItems + 2)) :
                 /\ p[2] \in DOMAIN DataOf(p[1])
                 /\ DataOf(p[1])[p[2]] = item})

\* C1: every chunk holding more than one sub-item has a sum of sub-item token
\* estimates <= token_limit (only a one-item chunk may exceed the limit).
C1_SizeBound ==
  \A k \in DOMAIN chunked_data :
    Len(DataOf(k)) > 1 => SumSizes(DataOf(k)) <= token_limit

\* C2: every attribute of a record is preceded in its chunk by the metadata
\* item of the record that owns it, with no other metadata item in between;
\* and a chunk that continues the attribute list of a record begun in the
\* chunk before it starts with that record's metadata item.
C2_Continuation ==
  \A k \in DOMAIN chunked_data :
    LET data == DataOf(k) IN
    /\ \A j \in DOMAIN data :
         data[j].role = "attribute" =>
           \E i \in 1..(j - 1) :
             /\ data[i].role = "metadata"
             /\ data[i].rec = data[j].rec
             /\ \A l \in (i + 1)..(j - 1) :
                  data[l].role \notin {"metadata", "placeholder"}
    /\ \A j \in DOMAIN data :
         ( /\ k > 1
           /\ data[j].role = "attribute"
           /\ \E j2 \in DOMAIN DataOf(k - 1) :
                /\ DataOf(k - 1)[j2].rec = data[j].rec
                /\ DataOf(k - 1)[j2].role \in {"metadata", "attribute"} )
         => /\ Head(data).role = "metadata"
            /\ Head(data).rec = data[j].rec

\* A chunk after the first that resumes a record's attribute list at its
\* second or a later attribute.
C2_Witness ==
  \E k \in DOMAIN chunked_data :
    /\ k > 1
    /\ Len(DataOf(k)) >= 2
    /\ DataOf(k)[1].role = "metadata"
    /\ DataOf(k)[2].role = "attribute"
    /\ DataOf(k)[2].idx >= 2

\* C3 as stated: the chunks' data lists concatenated in chunk_id order are
\* exactly the input traversal.
C3_Ordering ==
  Chunked =>
    Flatten([k \in DOMAIN chunked_data |-> DataOf(k)]) = Traversal(GetResults(json_data))

\* C3 amended: the chunks' data lists concatenated in chunk_id order, with
\* every metadata item re-inserted at the head of a chunk left out, are
\* exactly the input traversal.
C3_OrderingModuloReinserted ==
  Chunked =>
    Flatten([k \in DOMAIN chunked_data |-> Stripped(k)]) = Traversal(GetResults(json_data))

C3_Witness ==
  /\ Chunked
  /\ Len(chunked_data) >= 2
  /\ \E k \in DOMAIN chunked_data : IsReinsertedHead(k)
  /\ Flatten([k \in DOMAIN chunked_data |-> DataOf(k)]) # Traversal(GetResults(json_data))

\* C4 as stated: every sub-item of the input traversal is in exactly one
\* chunk.
C4_ExactlyOnce ==
  Chunked =>
    LET t == Traversal(GetResults(json_data)) IN
    \A n \in DOMAIN t : Occurrences(t[n]) = 1

\* C4 amended: every attribute and every non-record entry of the input is in
\* exactly one chunk; every metadata item is in at least one chunk, and each
\* occurrence beyond one is the re-inserted first element of a chunk.
C4_OnceButReinserted ==
  Chunked =>
    LET t == Traversal(GetResults(json_data)) IN
    \A n \in DOMAIN t :
      IF t[n].role = "metadata"
      THEN Occurrences(t[n]) =
             1 + Cardinality({k \in DOMAIN chunked_data :
                                IsReinsertedHead(k) /\ Head(DataOf(k)) = t[n]})
      ELSE Occurrences(t[n]) = 1

C4_Witness ==
  /\ Chunked
  /\ LET t == Traversal(GetResults(json_data)) IN
     /\ \E n \in DOMAIN t : t[n].role = "metadata" /\ Occurrences(t[n]) >= 2
     /\ \E n \in DOMAIN t : t[n].role = "attribute" /\ Occurrences(t[n]) = 1

C6_MapOncePerChunk ==
  ( /\ pc \in {"final_prompt", "done", "failed"}
    /\ Len(chunked_data) >= 1
    /\ error \notin {"MapCallFailure", "ReduceCallFailure"} )
  => /\ MapCalls = Len(chunked_data)
     /\ Len(summaries) = Len(chunked_data)
     /\ pc # "failed"

\* C7: the payload built for the chunk at position i carries chunk_id = i
\* (0-based), total_chunks = the number of chunks, the chunk's data and the
\* user question.
C7_PayloadChunkId ==
  \A n \in DOMAIN prepared_data_list :
    LET d == prepared_data_list[n] IN
    /\ d.chunk_id.py = "int"
    /\ d.chunk_id.v = n - 1
    /\ d.total_chunks = Len(chunked_data)
    /\ d.chunk = DataOf(n)
    /\ d.user_question = user_question

C10_OversizedSingle ==
  Chunked =>
    /\ \A k \in DOMAIN chunked_data : DataOf(k) # <<>>
    /\ LET r == GetResults(json_data) IN
       ( /\ Len(r) = 1
         /\ r[1].is_record
         /\ r[1].attributes = <<>>
         /\ r[1].size > token_limit )
       => chunked_data = <<[chunk_id |-> 0, total_chunks |-> 1,
                            data |-> <<MetadataItem(1, r[1])>>]>>

\* C11: when _summarize_metadata was entered with non-empty results (get_metadata
\* with summarize=True after a successful fetch) and the summarization failed,
\* the caller has received the fetched response, not an error.
C11_BestEffort ==
  (entry = "service" /\ ~NoResults(metadata_response) /\ pc = "failed") =>
    /\ result.kind = "response"
    /\ result.value = metadata_response

\* C14: _request never ends with an exception, and after a request error (no
\* response, or a response with an error status) it has returned the empty
\* result.
C14_RequestNeverRaises ==
  entry = "request" =>
    /\ pc # "request_raised"
    /\ (pc = "request_returned" /\ ~response.status_ok) =>
         (result.kind = "response" /\ result.value = EmptyResult)

\* The phase of the orchestration run (Summarizer.summarize) the position is
\* in; "None" for the positions of a call that starts no run.
Phase ==
  CASE pc = "idle" -> "Idle"
    [] pc = "chunk_data" -> "Chunking"
    [] pc \in {"prepare_data", "send_chunks"} -> "Mapping"
    [] pc = "final_prompt" -> "Reducing"
    [] pc = "done" -> "Done"
    [] pc = "failed" -> "Failed"
    [] OTHER -> "None"

PhaseSteps ==
  {<<"Idle", "Chunking">>, <<"Chunking", "Mapping">>, <<"Mapping", "Reducing">>,
   <<"Reducing", "Done">>, <<"Chunking", "Failed">>, <<"Mapping", "Failed">>,
   <<"Reducing", "Failed">>, <<"Idle", "None">>}

\* C12: a run moves through Idle, Chunking, Mapping, Reducing, Done in this
\* order, one phase at a time and never back, or into Failed from Chunking,
\* Mapping or Reducing; nothing leaves Done or Failed; and a run that has
\* started reaches Done or Failed.
C12_RunStateMachine ==
  /\ [][Phase' = Phase \/ <<Phase, Phase'>> \in PhaseSteps]_vars
  /\ (Phase = "Chunking") ~> (Phase \in {"Done", "Failed"})

\* A run that went through every phase and ended in Done.
C12_Witness ==
  /\ pc = "done"
  /\ entry = "direct"
  /\ ReduceCalls = 1
  /\ result.kind = "final_summary"

\* The sub-item whose add_to_chunk call closed chunk k - 1 and opened chunk k:
\* the attribute after a re-inserted metadata item, or else the first element.
Trigger(k) == IF IsReinsertedHead(k) THEN DataOf(k)[2] ELSE Head(DataOf(k))

\* The spec's scenario (limit 100, metadata 40, attributes 30, 30, 50) in the
\* unit of the code's limit of 120000: one unit is 1200 tokens.
ExampleRecord ==
  [is_record |-> TRUE, size |-> 40 * 1200,
   attributes |-> <<30 * 1200, 30 * 1200, 50 * 1200>>]

ExampleChunks == chunk_data([has_results |-> TRUE, results |-> <<ExampleRecord>>])

\* C13: for every two consecutive chunks k, k+1 the estimates of chunk k's
\* sub-items plus the estimate of the sub-item that triggered the close exceed
\* token_limit; and the scenario gives [metadata, attr1, attr2],
\* [metadata, attr3].
C13_GreedyPacking ==
  /\ Chunked =>
       \A k \in DOMAIN chunked_data :
         (k + 1) \in DOMAIN chunked_data =>
           SumSizes(DataOf(k)) + estimate_tokens(Trigger(k + 1)) > token_limit
  /\ Len(ExampleChunks) = 2
  /\ ExampleChunks[1].data =
       <<MetadataItem(1, ExampleRecord), AttributeItem(1, ExampleRecord, 1),
         AttributeItem(1, ExampleRecord, 2)>>
  /\ ExampleChunks[2].data =
       <<MetadataItem(1, ExampleRecord), AttributeItem(1, ExampleRecord, 3)>>

\* A chunk of several sub-items within the limit, closed by an attribute that
\* did not fit.
C13_Witness ==
  /\ Chunked
  /\ \E k \in DOMAIN chunked_data :
       /\ (k + 1) \in DOMAIN chunked_data
       /\ Len(DataOf(k)) >= 2
       /\ SumSizes(DataOf(k)) <= token_limit
       /\ IsReinsertedHead(k + 1)
       /\ Trigger(k + 1).role = "attribute"

====
